---- MODULE Spec2Model ----
(***************************************************************************)
(* Model of the RDF/XML parser of sophia (sophia/src/parser/xml.rs): the   *)
(* prefix mapping, the scope stacks, the node/predicate state machine, the *)
(* triple queue and the pull iterator.                                     *)
(*                                                                         *)
(* Strings are sequences of one-character strings, so that splitting a     *)
(* CURIE at its first ':' and appending a local name to a namespace are    *)
(* computed as the code computes them.  Option<T> is a sequence of length  *)
(* 0 (None) or 1 (Some(x)).  A panic of the code (expect, unwrap, panic!,  *)
(* index out of bounds) unwinds and drops the parser: the model records it *)
(* in status and empties the parser's fields.                              *)
(***************************************************************************)
EXTENDS Naturals, Integers, Sequences, FiniteSets, TLC

\* ------------------------------------------------------------------------
\* Bounds of the model (not program constants)
\* ------------------------------------------------------------------------
MaxDepth == 4
MaxAttrs == 2
MaxBnodes == 2
MaxReads == 2

\* feeds of a sink that are followed
MaxFeeds == 3

\* ------------------------------------------------------------------------
\* String constants of the program
\* ------------------------------------------------------------------------
RdfPrefix ==
  <<"h","t","t","p",":","/","/","w","w","w",".","w","3",".","o","r","g","/","1","9","9","9","/","0","2","/","2","2","-","r","d","f","-","s","y","n","t","a","x","-","n","s","#">>
XsdPrefix ==
  <<"h","t","t","p",":","/","/","w","w","w",".","w","3",".","o","r","g","/","2","0","0","1","/","X","M","L","S","c","h","e","m","a","#">>
XmlPrefix ==
  <<"h","t","t","p",":","/","/","w","w","w",".","w","3",".","o","r","g","/","X","M","L","/","1","9","9","8","/","n","a","m","e","s","p","a","c","e","#">>
StrRdfRDF ==
  <<"r","d","f",":","R","D","F">>
StrXmlnsColon ==
  <<"x","m","l","n","s",":">>
StrXmlns ==
  <<"x","m","l","n","s">>
StrXmlLang ==
  <<"x","m","l",":","l","a","n","g">>
StrXml ==
  <<"x","m","l">>
StrUnderscore ==
  <<"_">>

\* ------------------------------------------------------------------------
\* Strings of the documents the model reads
\* ------------------------------------------------------------------------
StrRdfDescription ==
  <<"r","d","f",":","D","e","s","c","r","i","p","t","i","o","n">>
StrExP ==
  <<"e","x",":","p">>
StrExQ ==
  <<"e","x",":","q">>
StrE2P ==
  <<"e","2",":","p">>
StrXmlnsRdf ==
  <<"x","m","l","n","s",":","r","d","f">>
StrXmlnsEx ==
  <<"x","m","l","n","s",":","e","x">>
StrXmlnsE2 ==
  <<"x","m","l","n","s",":","e","2">>
StrRdfAbout ==
  <<"r","d","f",":","a","b","o","u","t">>
StrRdfNodeID ==
  <<"r","d","f",":","n","o","d","e","I","D">>
StrRdfID ==
  <<"r","d","f",":","I","D">>
StrRdfDatatype ==
  <<"r","d","f",":","d","a","t","a","t","y","p","e">>
StrRdfResource ==
  <<"r","d","f",":","r","e","s","o","u","r","c","e">>
ExNs ==
  <<"h","t","t","p",":","/","/","e","/">>
ValAbout ==
  <<"h","t","t","p",":","/","/","e","/","s">>
XsdInt ==
  <<"h","t","t","p",":","/","/","w","w","w",".","w","3",".","o","r","g","/","2","0","0","1","/","X","M","L","S","c","h","e","m","a","#","i","n","t">>

\* ------------------------------------------------------------------------
\* Option<T>
\* ------------------------------------------------------------------------
None == <<>>

Some(x) == <<x>>

IsSome(o) == Len(o) = 1

Unwrap(o) == o[1]

\* ------------------------------------------------------------------------
\* String helpers
\* ------------------------------------------------------------------------
StartsWith(s, p) == Len(s) >= Len(p) /\ SubSeq(s, 1, Len(p)) = p

\* position of the first character c of s, 0 when there is none
Position(s, c) ==
  IF \E i \in 1..Len(s) : s[i] = c
  THEN CHOOSE i \in 1..Len(s) : s[i] = c /\ \A j \in 1..(i - 1) : s[j] # c
  ELSE 0

Digit(d) ==
  CASE d = 0 -> "0" [] d = 1 -> "1" [] d = 2 -> "2" [] d = 3 -> "3"
    [] d = 4 -> "4" [] d = 5 -> "5" [] d = 6 -> "6" [] d = 7 -> "7"
    [] d = 8 -> "8" [] d = 9 -> "9"

\* format!("{}", n) of a usize
RECURSIVE ToDec(_)
ToDec(n) ==
  IF n < 10 THEN <<Digit(n)>>
  ELSE Append(ToDec(n \div 10), Digit(n % 10))

\* ------------------------------------------------------------------------
\* Terms and the term factory
\* ------------------------------------------------------------------------
\* is_valid_iri_ref: the characters below may not occur in an IRI reference
IriForbidden == {" ", "<", ">", "{", "}", "|"}

IsValidIriRef(s) == \A i \in 1..Len(s) : s[i] \notin IriForbidden

\* Term::Iri; a term is compared by its full text, namespace and suffix joined
Iri(s) == [kind |-> "Iri", value |-> s, tag |-> <<>>]

BNode(label) == [kind |-> "BNode", value |-> label, tag |-> <<>>]

\* Term::Literal with a datatype; dt is an Iri term
LiteralDt(txt, dt) == [kind |-> "LiteralDt", value |-> txt, tag |-> dt.value]

LiteralLang(txt, l) == [kind |-> "LiteralLang", value |-> txt, tag |-> l]

\* factory.iri(text): None stands for the Err that the caller expect()s
FactoryIri(s) == IF IsValidIriRef(s) THEN Some(Iri(s)) ELSE None

\* factory.bnode(label)
FactoryBNode(label) == IF Len(label) > 0 THEN Some(BNode(label)) ELSE None

\* a constructor that accepts any text
NamespaceNew_unchecked(iri) == Some(iri)

\* Namespace::new: None stands for Err(TermError::InvalidIri(iri))
NamespaceNew(iri) == IF IsValidIriRef(iri) THEN Some(iri) ELSE None

\* Namespace::get, through Iri::new_suffixed
NamespaceGet(ns, suffix) ==
  IF IsValidIriRef(ns \o suffix) THEN Some(Iri(ns \o suffix)) ELSE None

\* the static vocabulary terms the parser uses
rdf_about == Iri(RdfPrefix \o <<"a","b","o","u","t">>)

rdf_ID == Iri(RdfPrefix \o <<"I","D">>)

rdf_nodeID == Iri(RdfPrefix \o <<"n","o","d","e","I","D">>)

rdf_Description == Iri(RdfPrefix \o <<"D","e","s","c","r","i","p","t","i","o","n">>)

rdf_type == Iri(RdfPrefix \o <<"t","y","p","e">>)

rdf_datatype == Iri(RdfPrefix \o <<"d","a","t","a","t","y","p","e">>)

rdf_resource == Iri(RdfPrefix \o <<"r","e","s","o","u","r","c","e">>)

xml_lang == Iri(XmlPrefix \o <<"l","a","n","g">>)

xsd_string == Iri(XsdPrefix \o <<"s","t","r","i","n","g">>)

\* ------------------------------------------------------------------------
\* PrefixMapping: a function from prefixes to namespaces
\* ------------------------------------------------------------------------
\* add_prefix: None when the code panics (reserved prefix, invalid namespace)
add_prefix(m, prefix, value) ==
  IF prefix = StrUnderscore THEN None
  ELSE IF ~IsSome(NamespaceNew(value)) THEN None
  ELSE Some([q \in (DOMAIN m) \cup {prefix} |->
               IF q = prefix THEN Unwrap(NamespaceNew(value)) ELSE m[q]])

\* PrefixMapping::default
PrefixMappingDefault == Unwrap(add_prefix(<<>>, StrXml, XmlPrefix))

\* expand_curie: None when the code panics (no such namespace, invalid IRI)
expand_curie(m, prefix, local) ==
  IF prefix \in DOMAIN m THEN NamespaceGet(m[prefix], local) ELSE None

\* expand_curie_string: None when the code panics (missing prefix, ...)
expand_curie_string(m, curie_str) ==
  LET separator_idx == Position(curie_str, ":")
  IN  IF separator_idx # 0
      THEN expand_curie(m, SubSeq(curie_str, 1, separator_idx - 1),
                        SubSeq(curie_str, separator_idx + 1, Len(curie_str)))
      ELSE None

\* ------------------------------------------------------------------------
\* Unescaping of character data and attribute values (quick_xml)
\* ------------------------------------------------------------------------
\* the character an entity name stands for, None for an unknown entity
EntityChar(ent) ==
  IF ent = <<"a","m","p">> THEN Some("&")
  ELSE IF ent = <<"l","t">> THEN Some("<")
  ELSE IF ent = <<"g","t">> THEN Some(">")
  ELSE None

\* unescape_and_decode: None stands for the Err that the caller expect()s
RECURSIVE unescape(_)
unescape(s) ==
  LET a == Position(s, "&")
  IN  IF a = 0 THEN Some(s)
      ELSE LET rest == SubSeq(s, a, Len(s))
               j == Position(rest, ";")
           IN  IF j = 0 THEN None
               ELSE LET c == EntityChar(SubSeq(rest, 2, j - 1))
                        r == unescape(SubSeq(rest, j + 1, Len(rest)))
                    IN  IF IsSome(c) /\ IsSome(r)
                        THEN Some(SubSeq(s, 1, a - 1) \o <<Unwrap(c)>> \o Unwrap(r))
                        ELSE None

\* ------------------------------------------------------------------------
\* Language tags (factory.literal_lang)
\* ------------------------------------------------------------------------
UpperChars ==
  <<"A","B","C","D","E","F","G","H","I","J","K","L","M","N","O","P","Q","R","S","T","U","V","W","X","Y","Z">>

LowerChars ==
  <<"a","b","c","d","e","f","g","h","i","j","k","l","m","n","o","p","q","r","s","t","u","v","w","x","y","z">>

DigitChars == {"0","1","2","3","4","5","6","7","8","9"}

ToLowerChar(c) ==
  LET i == Position(UpperChars, c) IN IF i = 0 THEN c ELSE LowerChars[i]

ToLower(s) == [i \in 1..Len(s) |-> ToLowerChar(s[i])]

IsTagChar(c) ==
  \/ Position(UpperChars, c) # 0
  \/ Position(LowerChars, c) # 0
  \/ c \in DigitChars

\* a tag is a non-empty list of non-empty alphanumeric subtags joined by '-'
IsValidLangTag(l) ==
  /\ Len(l) > 0
  /\ l[1] # "-"
  /\ l[Len(l)] # "-"
  /\ \A i \in 1..Len(l) : IsTagChar(l[i]) \/ l[i] = "-"
  /\ \A i \in 1..(Len(l) - 1) : ~(l[i] = "-" /\ l[i + 1] = "-")

\* factory.literal_lang: the tag is validated and stored lowercased
FactoryLiteralLang(txt, l) ==
  IF IsValidLangTag(l) THEN Some(LiteralLang(txt, ToLower(l))) ELSE None

\* factory.literal_dt
FactoryLiteralDt(txt, dt) == Some(LiteralDt(txt, dt))

\* ------------------------------------------------------------------------
\* XML events and attributes
\* ------------------------------------------------------------------------
Attr(k, v) == [key |-> k, value |-> v]

Event(t, n, as, txt) == [type |-> t, name |-> n, attrs |-> as, text |-> txt]

NoEvent == Event("None", <<>>, <<>>, <<>>)

\* Attributes::with_checks(true) yields an Err at a repeated key
AttrsErr(attrs) ==
  \E i, j \in 1..Len(attrs) : i < j /\ attrs[i].key = attrs[j].key

\* Result<[Term; 3]>: the parser only ever enqueues Ok items
Ok(s, p, o) == [ok |-> TRUE, val |-> <<s, p, o>>]

\* ------------------------------------------------------------------------
\* Scope stacks: enter_scope / leave_scope
\* ------------------------------------------------------------------------
\* first loop of enter_scope: the xmlns:* declarations of the element
RECURSIVE scope_ns(_, _, _)
scope_ns(ns, attrs, i) ==
  IF i > Len(attrs) THEN Some(ns)
  ELSE IF StartsWith(attrs[i].key, StrXmlnsColon)
  THEN LET r == add_prefix(ns, SubSeq(attrs[i].key, 7, Len(attrs[i].key)),
                           attrs[i].value)
       IN  IF IsSome(r) THEN scope_ns(Unwrap(r), attrs, i + 1) ELSE None
  ELSE scope_ns(ns, attrs, i + 1)

\* second loop of enter_scope: Some(lang) or None when the code panics
RECURSIVE scope_lang(_, _, _)
scope_lang(lang, attrs, i) ==
  IF i > Len(attrs) THEN Some(lang)
  ELSE IF attrs[i].key = StrXmlLang
  THEN LET v == unescape(attrs[i].value)
       IN  IF IsSome(v) THEN scope_lang(Some(Unwrap(v)), attrs, i + 1) ELSE None
  ELSE scope_lang(lang, attrs, i + 1)

\* enter_scope starting the language frame from no tag instead of the
\* frame of the parent
enter_scope_no_inherit(st, e) ==
  LET ns == scope_ns(st.namespaces[Len(st.namespaces)], e.attrs, 1)
      lg == scope_lang(None, e.attrs, 1)
  IN  IF AttrsErr(e.attrs) \/ ~IsSome(ns) \/ ~IsSome(lg) THEN None
      ELSE Some([st EXCEPT !.namespaces = Append(@, Unwrap(ns)),
                           !.lang = Append(@, Unwrap(lg)),
                           !.text = None])

\* enter_scope building the namespace frame from a fresh mapping instead of
\* the frame of the parent
enter_scope_fresh_ns(st, e) ==
  LET ns == scope_ns(PrefixMappingDefault, e.attrs, 1)
      lg == scope_lang(st.lang[Len(st.lang)], e.attrs, 1)
  IN  IF AttrsErr(e.attrs) \/ ~IsSome(ns) \/ ~IsSome(lg) THEN None
      ELSE Some([st EXCEPT !.namespaces = Append(@, Unwrap(ns)),
                           !.lang = Append(@, Unwrap(lg)),
                           !.text = None])

\* st is the parser: [namespaces, lang, parents, triples, in_node, bnodes,
\* text]; every handler returns Some(parser) or None when the code panics
enter_scope(st, e) ==
  LET ns == scope_ns(st.namespaces[Len(st.namespaces)], e.attrs, 1)
      lg == scope_lang(st.lang[Len(st.lang)], e.attrs, 1)
  IN  IF AttrsErr(e.attrs) \/ ~IsSome(ns) \/ ~IsSome(lg) THEN None
      ELSE Some([st EXCEPT !.namespaces = Append(@, Unwrap(ns)),
                           !.lang = Append(@, Unwrap(lg)),
                           !.text = None])

\* Vec::pop
Pop(v) == IF v = <<>> THEN v ELSE SubSeq(v, 1, Len(v) - 1)

\* leave_scope forgetting the language stack
leave_scope_keeps_lang(st) ==
  [st EXCEPT !.namespaces = Pop(@), !.text = None]

leave_scope(st) ==
  [st EXCEPT !.namespaces = Pop(@), !.lang = Pop(@), !.text = None]

\* ------------------------------------------------------------------------
\* Node elements: node_start
\* ------------------------------------------------------------------------
\* HashMap::insert
MapInsert(m, k, v) ==
  [q \in (DOMAIN m) \cup {k} |-> IF q = k THEN v ELSE m[q]]

NodeAttrsPanic == [panic |-> TRUE, subject |-> None, properties |-> <<>>]

\* the attribute loop of node_start: the subject annotation and the
\* properties map
RECURSIVE node_attrs(_, _, _, _, _)
node_attrs(ns, attrs, i, subject, properties) ==
  IF i > Len(attrs)
  THEN [panic |-> FALSE, subject |-> subject, properties |-> properties]
  ELSE IF StartsWith(attrs[i].key, StrXmlns)
  THEN node_attrs(ns, attrs, i + 1, subject, properties)
  ELSE
    LET k == expand_curie_string(ns, attrs[i].key)
        v == unescape(attrs[i].value)
    IN  IF ~IsSome(k) \/ ~IsSome(v) THEN NodeAttrsPanic
        ELSE IF Unwrap(k) = rdf_about
        THEN IF IsSome(subject) \/ ~IsSome(FactoryIri(Unwrap(v)))
             THEN NodeAttrsPanic
             ELSE node_attrs(ns, attrs, i + 1, FactoryIri(Unwrap(v)), properties)
        ELSE IF Unwrap(k) = rdf_ID
        THEN node_attrs(ns, attrs, i + 1, subject, properties)
        ELSE IF Unwrap(k) = rdf_nodeID
        THEN IF IsSome(subject) \/ ~IsSome(FactoryBNode(<<"o">> \o Unwrap(v)))
             THEN NodeAttrsPanic
             ELSE node_attrs(ns, attrs, i + 1,
                             FactoryBNode(<<"o">> \o Unwrap(v)), properties)
        ELSE IF Unwrap(k) # xml_lang
        THEN node_attrs(ns, attrs, i + 1, subject,
               MapInsert(properties, Unwrap(k),
                         Unwrap(FactoryLiteralDt(Unwrap(v), xsd_string))))
        ELSE node_attrs(ns, attrs, i + 1, subject, properties)

\* the triples of the properties map, in the iteration order of the map
PropertyTriples(s, properties, order) ==
  [i \in 1..Len(order) |-> Ok(s, order[i], properties[order[i]])]

\* a type triple for every element, rdf:Description included
TypeTriples_always(s, ty) == <<Ok(s, rdf_type, ty)>>

\* the type triple, unless the element is rdf:Description
TypeTriples(s, ty) ==
  IF ty # rdf_Description THEN <<Ok(s, rdf_type, ty)>> ELSE <<>>

\* the triple that makes a nested node the object of its parent predicate
LinkTriples(parents) ==
  IF Len(parents) > 1
  THEN <<Ok(parents[Len(parents) - 2], parents[Len(parents) - 1],
            parents[Len(parents)])>>
  ELSE <<>>

\* a fresh blank node labelled with the counter after its increment
NodeSubject_next(subject, bnodes) ==
  IF IsSome(subject) THEN Unwrap(subject)
  ELSE Unwrap(FactoryBNode(<<"n">> \o ToDec(bnodes + 1)))

\* the subject of a node: the annotation, or else a fresh blank node
NodeSubject(subject, bnodes) ==
  IF IsSome(subject) THEN Unwrap(subject)
  ELSE Unwrap(FactoryBNode(<<"n">> \o ToDec(bnodes)))

\* node_start leaving the blank-node counter where it was
node_start_no_incr(st, e, order) ==
  LET ns == st.namespaces[Len(st.namespaces)]
      r  == node_attrs(ns, e.attrs, 1, None, <<>>)
      s  == NodeSubject(r.subject, st.bnodes)
      parents == Append(st.parents, s)
      ty == expand_curie_string(ns, e.name)
  IN  IF r.panic \/ ~IsSome(ty) THEN None
      ELSE IF Len(parents) = 2 THEN None
      ELSE Some([st EXCEPT
             !.parents = parents,
             !.triples = @ \o TypeTriples(s, Unwrap(ty))
                           \o PropertyTriples(s, r.properties, order)
                           \o LinkTriples(parents)])

\* node_start enqueuing the linking triple before the property triples
node_start_link_first(st, e, order) ==
  LET ns == st.namespaces[Len(st.namespaces)]
      r  == node_attrs(ns, e.attrs, 1, None, <<>>)
      s  == NodeSubject(r.subject, st.bnodes)
      parents == Append(st.parents, s)
      ty == expand_curie_string(ns, e.name)
  IN  IF r.panic \/ ~IsSome(ty) THEN None
      ELSE IF Len(parents) = 2 THEN None
      ELSE Some([st EXCEPT
             !.parents = parents,
             !.bnodes = @ + 1,
             !.triples = @ \o TypeTriples(s, Unwrap(ty))
                           \o LinkTriples(parents)
                           \o PropertyTriples(s, r.properties, order)])

\* order is the iteration order of the properties HashMap
node_start(st, e, order) ==
  LET ns == st.namespaces[Len(st.namespaces)]
      r  == node_attrs(ns, e.attrs, 1, None, <<>>)
      s  == NodeSubject(r.subject, st.bnodes)
      parents == Append(st.parents, s)
      ty == expand_curie_string(ns, e.name)
  IN  IF r.panic \/ ~IsSome(ty) THEN None
      \* parents[len - 3] underflows when only two entries are on the stack
      ELSE IF Len(parents) = 2 THEN None
      ELSE Some([st EXCEPT
             !.parents = parents,
             \* unwrap_or evaluates its argument: the counter always advances
             !.bnodes = @ + 1,
             !.triples = @ \o TypeTriples(s, Unwrap(ty))
                           \o PropertyTriples(s, r.properties, order)
                           \o LinkTriples(parents)])

\* ------------------------------------------------------------------------
\* Predicate elements: predicate_start, predicate_end, predicate_text
\* ------------------------------------------------------------------------
\* Text { datatype, text }
Text(dt, txt) == [datatype |-> dt, text |-> txt]

\* the attribute loop of predicate_start: Some(datatype) or None on a panic
RECURSIVE predicate_attrs(_, _, _, _)
predicate_attrs(ns, attrs, i, datatype) ==
  IF i > Len(attrs) THEN Some(datatype)
  ELSE IF StartsWith(attrs[i].key, StrXmlns)
  THEN predicate_attrs(ns, attrs, i + 1, datatype)
  ELSE
    LET k == expand_curie_string(ns, attrs[i].key)
    IN  IF ~IsSome(k) THEN None
        ELSE IF Unwrap(k) = rdf_datatype
        THEN LET v == unescape(attrs[i].value)
             IN  IF ~IsSome(v) THEN None
                 ELSE IF ~IsSome(FactoryIri(Unwrap(v))) THEN None
                 ELSE predicate_attrs(ns, attrs, i + 1, FactoryIri(Unwrap(v)))
        ELSE predicate_attrs(ns, attrs, i + 1, datatype)

predicate_start(st, e) ==
  LET ns == st.namespaces[Len(st.namespaces)]
      p  == expand_curie_string(ns, e.name)
      dt == predicate_attrs(ns, e.attrs, 1, None)
  IN  IF ~IsSome(p) \/ ~IsSome(dt) THEN None
      ELSE Some([st EXCEPT !.parents = Append(@, Unwrap(p)),
                           !.text = Some(Text(Unwrap(dt), <<>>))])

\* the language tag in scope taking precedence over the datatype
LiteralObject_lang_first(text, lang) ==
  IF IsSome(lang)
  THEN FactoryLiteralLang(text.text, Unwrap(lang))
  ELSE IF IsSome(text.datatype)
  THEN FactoryLiteralDt(text.text, Unwrap(text.datatype))
  ELSE FactoryLiteralDt(text.text, xsd_string)

\* the object literal of predicate_end: Some(term) or None on a panic
LiteralObject(text, lang) ==
  IF IsSome(text.datatype)
  THEN FactoryLiteralDt(text.text, Unwrap(text.datatype))
  ELSE IF IsSome(lang)
  THEN FactoryLiteralLang(text.text, Unwrap(lang))
  ELSE FactoryLiteralDt(text.text, xsd_string)

\* predicate_end skipping an accumulator without character data
predicate_end_nonempty(st, e) ==
  LET ns == st.namespaces[Len(st.namespaces)]
      p  == expand_curie_string(ns, e.name)
  IN  IF ~IsSome(p) THEN None
      ELSE IF IsSome(st.text) /\ Unwrap(st.text).text # <<>>
      THEN LET o == LiteralObject(Unwrap(st.text), st.lang[Len(st.lang)])
           IN  IF Len(st.parents) < 2 \/ ~IsSome(o) THEN None
               ELSE Some([st EXCEPT
                      !.text = None,
                      !.triples = Append(@, Ok(st.parents[Len(st.parents) - 1],
                                               Unwrap(p), Unwrap(o)))])
      ELSE Some(st)

predicate_end(st, e) ==
  LET ns == st.namespaces[Len(st.namespaces)]
      p  == expand_curie_string(ns, e.name)
  IN  IF ~IsSome(p) THEN None
      ELSE IF IsSome(st.text)
      THEN LET o == LiteralObject(Unwrap(st.text), st.lang[Len(st.lang)])
           IN  \* parents[len - 2] is out of bounds below two entries
               IF Len(st.parents) < 2 \/ ~IsSome(o) THEN None
               ELSE Some([st EXCEPT
                      !.text = None,
                      !.triples = Append(@, Ok(st.parents[Len(st.parents) - 1],
                                               Unwrap(p), Unwrap(o)))])
      ELSE Some(st)

predicate_text(st, e) ==
  IF IsSome(st.text)
  THEN LET t == unescape(e.text)
       IN  IF IsSome(t)
           THEN Some([st EXCEPT !.text = Some([Unwrap(@) EXCEPT !.text = Unwrap(t)])])
           ELSE None
  ELSE Some(st)

\* ------------------------------------------------------------------------
\* Empty elements: predicate_empty, node_empty
\* ------------------------------------------------------------------------
\* the attribute loop of predicate_empty: [panic, object]
RECURSIVE object_attrs(_, _, _, _)
object_attrs(ns, attrs, i, object) ==
  IF i > Len(attrs) THEN [panic |-> FALSE, object |-> object]
  ELSE IF StartsWith(attrs[i].key, StrXmlnsColon)
  THEN object_attrs(ns, attrs, i + 1, object)
  ELSE
    LET k == expand_curie_string(ns, attrs[i].key)
        v == unescape(attrs[i].value)
    IN  IF ~IsSome(k) \/ ~IsSome(v) THEN [panic |-> TRUE, object |-> None]
        ELSE IF Unwrap(k) = rdf_resource
        THEN IF IsSome(object) \/ ~IsSome(FactoryIri(Unwrap(v)))
             THEN [panic |-> TRUE, object |-> None]
             ELSE object_attrs(ns, attrs, i + 1, FactoryIri(Unwrap(v)))
        ELSE IF Unwrap(k) = rdf_nodeID
        THEN IF IsSome(object) \/ ~IsSome(FactoryBNode(<<"o">> \o Unwrap(v)))
             THEN [panic |-> TRUE, object |-> None]
             ELSE object_attrs(ns, attrs, i + 1,
                               FactoryBNode(<<"o">> \o Unwrap(v)))
        ELSE object_attrs(ns, attrs, i + 1, object)

\* predicate_empty labelling the object blank node with the bare rdf:nodeID
predicate_empty_bare_label(st, e) ==
  LET ns == st.namespaces[Len(st.namespaces)]
      p  == expand_curie_string(ns, e.name)
      r  == object_attrs(ns, e.attrs, 1, None)
  IN  IF ~IsSome(p) \/ r.panic THEN None
      ELSE IF st.parents = <<>> \/ ~IsSome(r.object) THEN None
      ELSE LET o == Unwrap(r.object)
           IN  Some([st EXCEPT
                  !.triples = Append(@, Ok(st.parents[Len(st.parents)], Unwrap(p),
                                           IF o.kind = "BNode"
                                           THEN BNode(Tail(o.value)) ELSE o))])

predicate_empty(st, e) ==
  LET ns == st.namespaces[Len(st.namespaces)]
      p  == expand_curie_string(ns, e.name)
      r  == object_attrs(ns, e.attrs, 1, None)
  IN  IF ~IsSome(p) \/ r.panic THEN None
      \* parents.last().unwrap() and object.unwrap()
      ELSE IF st.parents = <<>> \/ ~IsSome(r.object) THEN None
      ELSE Some([st EXCEPT
             !.triples = Append(@, Ok(st.parents[Len(st.parents)], Unwrap(p),
                                      Unwrap(r.object)))])

node_empty(st, e) == Some(st)

\* ------------------------------------------------------------------------
\* Event handlers: element_start, element_end, element_text, element_empty
\* ------------------------------------------------------------------------
\* element_start treating rdf:RDF as any other element
element_start_no_wrapper(st, e, order) ==
  LET sc == enter_scope(st, e)
  IN  IF ~IsSome(sc) THEN None
      ELSE LET fl == [Unwrap(sc) EXCEPT !.in_node = ~@]
           IN  IF fl.in_node THEN node_start(fl, e, order)
               ELSE predicate_start(fl, e)

element_start(st, e, order) ==
  LET sc == enter_scope(st, e)
  IN  IF ~IsSome(sc) THEN None
      ELSE IF e.name # StrRdfRDF
      THEN LET fl == [Unwrap(sc) EXCEPT !.in_node = ~@]
           IN  IF fl.in_node THEN node_start(fl, e, order)
               ELSE predicate_start(fl, e)
      ELSE sc

\* element_end without the final parents.pop()
element_end_no_pop(st, e) ==
  LET r == IF e.name # StrRdfRDF
           THEN LET pe == IF ~st.in_node THEN predicate_end(st, e) ELSE Some(st)
                IN  IF IsSome(pe)
                    THEN Some([Unwrap(pe) EXCEPT !.in_node = ~@])
                    ELSE None
           ELSE Some(st)
  IN  IF IsSome(r) THEN Some(leave_scope(Unwrap(r))) ELSE None

element_end(st, e) ==
  LET r == IF e.name # StrRdfRDF
           THEN LET pe == IF ~st.in_node THEN predicate_end(st, e) ELSE Some(st)
                IN  IF IsSome(pe)
                    THEN Some([Unwrap(pe) EXCEPT !.in_node = ~@])
                    ELSE None
           ELSE Some(st)
  IN  IF IsSome(r)
      THEN Some([leave_scope(Unwrap(r)) EXCEPT !.parents = Pop(@)])
      ELSE None

element_text(st, e) ==
  IF ~st.in_node THEN predicate_text(st, e) ELSE Some(st)

\* element_empty changing the element type as an End does
element_empty_flips(st, e) ==
  LET sc == enter_scope(st, e)
  IN  IF ~IsSome(sc) THEN None
      ELSE LET r == IF Unwrap(sc).in_node
                    THEN predicate_empty(Unwrap(sc), e)
                    ELSE node_empty(Unwrap(sc), e)
           IN  IF IsSome(r)
               THEN Some([leave_scope(Unwrap(r)) EXCEPT !.in_node = ~@])
               ELSE None

element_empty(st, e) ==
  LET sc == enter_scope(st, e)
  IN  IF ~IsSome(sc) THEN None
      ELSE LET r == IF Unwrap(sc).in_node
                    THEN predicate_empty(Unwrap(sc), e)
                    ELSE node_empty(Unwrap(sc), e)
           IN  IF IsSome(r) THEN Some(leave_scope(Unwrap(r))) ELSE None

\* the keys of the properties map that node_start builds for the event, the
\* empty set when the event is not the start of a node
PropertyKeys(st, e) ==
  LET sc == enter_scope(st, e)
  IN  IF e.type = "Start" /\ IsSome(sc) /\ e.name # StrRdfRDF /\ ~st.in_node
      THEN DOMAIN node_attrs(Unwrap(sc).namespaces[Len(Unwrap(sc).namespaces)],
                             e.attrs, 1, None, <<>>).properties
      ELSE {}

\* the orders in which a HashMap may iterate a set of keys
Orderings(S) ==
  {f \in [1..Cardinality(S) -> S] :
     \A i, j \in 1..Cardinality(S) : f[i] = f[j] => i = j}

\* ------------------------------------------------------------------------
\* The documents the model reads
\* ------------------------------------------------------------------------
\* A document draws its element names and attributes from one vocabulary;
\* the namespace declarations of the vocabulary stand on top-level elements,
\* the other attributes on the elements below.
Vocabs == {"subjects", "properties", "literals", "objects", "scopes", "langs"}

Names == {StrRdfRDF, StrRdfDescription, StrExP}

RootAttrs(v) ==
  IF v = "scopes"
  THEN {Attr(StrXmlnsEx, ExNs), Attr(StrXmlnsE2, ExNs)}
  ELSE {Attr(StrXmlnsRdf, RdfPrefix), Attr(StrXmlnsEx, ExNs)}

InnerAttrs(v) ==
  CASE v = "subjects" ->
         {Attr(StrRdfAbout, ValAbout), Attr(StrRdfNodeID, <<"b">>),
          Attr(StrRdfID, <<"i">>)}
    [] v = "properties" ->
         {Attr(StrRdfAbout, ValAbout), Attr(StrExP, <<"v">>),
          Attr(StrExQ, <<"w">>)}
    [] v = "literals" ->
         {Attr(StrXmlLang, <<"e","n">>), Attr(StrRdfDatatype, XsdInt),
          Attr(StrExP, <<"v">>)}
    [] v = "objects" ->
         {Attr(StrRdfResource, ValAbout), Attr(StrRdfNodeID, <<"b">>),
          Attr(StrRdfAbout, ValAbout)}
    [] v = "scopes" ->
         {Attr(StrXmlnsEx, RdfPrefix), Attr(StrExP, <<"v">>),
          Attr(StrE2P, <<"w">>)}
    [] v = "langs" ->
         {Attr(StrXmlLang, <<"e","n">>), Attr(StrXmlLang, <<"d","e">>),
          Attr(StrXmlLang, <<>>)}

\* the attribute lists an element may carry when depth elements are open
AttrLists(v, depth) ==
  LET as == IF depth = 0 THEN RootAttrs(v) ELSE InnerAttrs(v)
  IN  UNION {[1..n -> as] : n \in 0..MaxAttrs}

Texts == {<<"t">>}

\* ------------------------------------------------------------------------
\* Graph sinks (graph/sinks.rs)
\* ------------------------------------------------------------------------
\* Result values of the sink calls
OkUnit == [ok |-> TRUE, val |-> "unit"]

OkVal(v) == [ok |-> TRUE, val |-> v]

Err(e) == [ok |-> FALSE, val |-> e]

\* the errors the graph collaborator may report
GraphErrors == {"GraphError1", "GraphError2"}

\* MutableGraph::insert on a graph with set semantics: the outcomes it may
\* have on the graph g, each with the graph it leaves
GraphInsert(g, t) ==
  {[res |-> OkVal(t \notin g), graph |-> g \cup {t}]}
    \cup {[res |-> Err(e), graph |-> g] : e \in GraphErrors}

\* MutableGraph::remove
GraphRemove(g, t) ==
  {[res |-> OkVal(t \in g), graph |-> g \ {t}]}
    \cup {[res |-> Err(e), graph |-> g] : e \in GraphErrors}

\* Inserter::new / Remover::new
SinkNew(kind) == [kind |-> kind, count |-> 0]

\* a feed that counts every operation that did not fail
Inserter_feed_counts_all(self, r) ==
  [self |-> IF r.ok THEN [self EXCEPT !.count = @ + 1] ELSE self,
   ret |-> IF r.ok THEN OkUnit ELSE r]

\* Inserter::feed, r being what graph.insert returned: Result::map keeps an
\* Err as it is and counts an Ok(true)
Inserter_feed(self, r) ==
  [self |-> IF r.ok /\ r.val THEN [self EXCEPT !.count = @ + 1] ELSE self,
   ret |-> IF r.ok THEN OkUnit ELSE r]

\* a feed that swallows the error of the graph
Remover_feed_swallows(self, r) ==
  [self |-> IF r.ok /\ r.val THEN [self EXCEPT !.count = @ + 1] ELSE self,
   ret |-> OkUnit]

\* Remover::feed, r being what graph.remove returned
Remover_feed(self, r) ==
  [self |-> IF r.ok /\ r.val THEN [self EXCEPT !.count = @ + 1] ELSE self,
   ret |-> IF r.ok THEN OkUnit ELSE r]

\* Inserter::finish / Remover::finish
finish(self) == OkVal(self.count)

\* the triples fed to a sink
SinkTriples ==
  {<<Iri(ValAbout), rdf_type, rdf_Description>>,
   <<Iri(ValAbout), rdf_type, Iri(ExNs)>>}

\* ------------------------------------------------------------------------
\* State
\* ------------------------------------------------------------------------
VARIABLES
  namespaces,  \* XmlParser.namespaces: stack of prefix mappings
  lang,        \* XmlParser.lang: stack of Option<language tag>
  parents,     \* XmlParser.parents: stack of terms
  triples,     \* XmlParser.triples: queue of Result<triple>
  in_node,     \* XmlParser.in_node
  bnodes,      \* XmlParser.bnodes: next value of the RangeFrom counter
  text,        \* XmlParser.text: Option<Text>
  open,        \* reader: names of the elements open at its position
  eof,         \* reader: TRUE once the end of the input has been reported
  status,      \* "running", or "panicked" once the code has panicked
  pc,          \* "idle" between calls of next, "loop" at the top of the
               \* loop of next, "iter" at the end of an iteration
  reads,       \* events read by the current call of next, up to MaxReads
  ret,         \* what the last call of next returned
  event,       \* the event the last iteration of the loop dispatched
  vocab,       \* the vocabulary of the document the reader holds
  rdf_nested,  \* TRUE once an rdf:RDF element was opened inside an element
  pushed_by,   \* for each entry of parents, the handler that pushed it
  graph,       \* the triples of the graph a sink borrows
  sink,        \* the sink: its kind and Inserter.count / Remover.count
  sink_ret,    \* what the last call of feed or finish returned
  fed,         \* for each feed so far, the triple and what the graph returned
  mapping,     \* PrefixMapping.mapping of a mapping used on its own
  pm_ret,      \* what the last call on that mapping returned, or its panic
  nsp,         \* Option of the Namespace a caller holds, with its storage type
  got,         \* the last two results of get_iri / get on such namespaces
  ns_ret       \* what the last call of new, get or try_from returned

sink_vars == <<graph, sink, sink_ret, fed>>

pm_vars == <<mapping, pm_ret>>

ns_vars == <<nsp, got, ns_ret>>

lib_vars == <<sink_vars, pm_vars, ns_vars>>

vars ==
  <<namespaces, lang, parents, triples, in_node, bnodes, text, open, eof,
    status, pc, reads, ret, event, vocab, rdf_nested, pushed_by, lib_vars>>

reader_vars ==
  <<open, eof, status, pc, reads, ret, event, vocab, rdf_nested, pushed_by>>

parser_vars == <<namespaces, lang, parents, triples, in_node, bnodes, text>>

\* the parser as the record the handlers work on
St ==
  [namespaces |-> namespaces, lang |-> lang, parents |-> parents,
   triples |-> triples, in_node |-> in_node, bnodes |-> bnodes, text |-> text]

NoItem == [ok |-> FALSE, val |-> <<>>]

NoRet == [kind |-> "none", item |-> NoItem]

RetSome(item) == [kind |-> "some", item |-> item]

RetNone == [kind |-> "end", item |-> NoItem]

\* what the call `call` on a mapping returned; panicked when it did not return
PmRet(call, arg, res, panicked) ==
  [call |-> call, arg |-> arg, item |-> res, panicked |-> panicked]

\* no sink is at work: a fresh Inserter on the empty graph
SinkIdle ==
  /\ graph = {}
  /\ sink = SinkNew("Inserter")
  /\ sink_ret = NoRet
  /\ fed = <<>>

\* PrefixMapping::default, no call made yet
PrefixIdle ==
  /\ mapping = PrefixMappingDefault
  /\ pm_ret = PmRet("none", <<>>, None, FALSE)

\* no namespace is held, no call made yet
NamespaceIdle ==
  /\ nsp = None
  /\ got = <<>>
  /\ ns_ret = PmRet("none", <<>>, None, FALSE)

\* XmlParser::new
Init ==
  /\ SinkIdle
  /\ PrefixIdle
  /\ NamespaceIdle
  /\ namespaces = <<PrefixMappingDefault>>
  /\ lang = <<None>>
  /\ parents = <<>>
  /\ triples = <<>>
  /\ in_node = FALSE
  /\ bnodes = 0
  /\ text = None
  /\ open = <<>>
  /\ eof = FALSE
  /\ status = "running"
  /\ pc = "idle"
  /\ reads = 0
  /\ ret = NoRet
  /\ event = NoEvent
  /\ vocab \in Vocabs
  /\ rdf_nested = FALSE
  /\ pushed_by = <<>>

\* ------------------------------------------------------------------------
\* Iterator::next
\* ------------------------------------------------------------------------
\* the caller calls next
NextCall ==
  /\ status = "running"
  /\ pc = "idle"
  /\ pc' = "loop"
  /\ reads' = 0
  /\ ret' = NoRet
  /\ event' = NoEvent
  /\ UNCHANGED <<parser_vars, open, eof, status, vocab, rdf_nested, pushed_by,
                 lib_vars>>

\* the loop returns the triple enqueued last
NextPop_last ==
  /\ status = "running"
  /\ pc = "loop"
  /\ triples # <<>>
  /\ ret' = RetSome(triples[Len(triples)])
  /\ triples' = Pop(triples)
  /\ pc' = "idle"
  /\ event' = NoEvent
  /\ UNCHANGED <<namespaces, lang, parents, in_node, bnodes, text, open, eof,
                 status, reads, vocab, rdf_nested, pushed_by, lib_vars>>

\* the loop finds a triple in the queue and returns it
NextPop ==
  /\ status = "running"
  /\ pc = "loop"
  /\ triples # <<>>
  /\ ret' = RetSome(Head(triples))
  /\ triples' = Tail(triples)
  /\ pc' = "idle"
  /\ event' = NoEvent
  /\ UNCHANGED <<namespaces, lang, parents, in_node, bnodes, text, open, eof,
                 status, reads, vocab, rdf_nested, pushed_by, lib_vars>>

\* the loop reads an event whatever the queue holds
CanRead_any ==
  /\ status = "running"
  /\ pc = "loop"

\* the loop may read an event: the queue is empty
CanRead ==
  /\ status = "running"
  /\ pc = "loop"
  /\ triples = <<>>

\* the code panics while it handles the event e: unwinding drops the parser
\* and the reader
Panic(e) ==
  /\ status' = "panicked"
  /\ namespaces' = <<>>
  /\ lang' = <<>>
  /\ parents' = <<>>
  /\ triples' = <<>>
  /\ in_node' = FALSE
  /\ bnodes' = 0
  /\ text' = None
  /\ open' = <<>>
  /\ eof' = FALSE
  /\ pc' = "idle"
  /\ reads' = 0
  /\ ret' = NoRet
  /\ event' = e
  /\ rdf_nested' = FALSE
  /\ pushed_by' = <<>>
  /\ UNCHANGED <<vocab, lib_vars>>

\* one iteration of the loop that reads event e and dispatches it; r is the
\* result of the handler, open2 the reader's open elements after the event
Dispatch(r, e, open2) ==
  IF IsSome(r)
  THEN /\ namespaces' = Unwrap(r).namespaces
       /\ lang' = Unwrap(r).lang
       /\ parents' = Unwrap(r).parents
       /\ triples' = Unwrap(r).triples
       /\ in_node' = Unwrap(r).in_node
       /\ bnodes' = Unwrap(r).bnodes
       /\ text' = Unwrap(r).text
       /\ open' = open2
       /\ event' = e
       /\ pc' = "iter"
       /\ reads' = IF reads < MaxReads THEN reads + 1 ELSE reads
       /\ rdf_nested' = (rdf_nested \/
                          (e.type = "Start" /\ e.name = StrRdfRDF /\ open # <<>>))
       /\ pushed_by' =
            IF Len(Unwrap(r).parents) > Len(parents)
            THEN Append(pushed_by, IF Unwrap(r).in_node THEN "node_start"
                                                       ELSE "predicate_start")
            ELSE IF Len(Unwrap(r).parents) < Len(parents) THEN Pop(pushed_by)
            ELSE pushed_by
       /\ UNCHANGED <<eof, status, ret, vocab, lib_vars>>
  ELSE Panic(e)

\* the end of an iteration: the event is dropped, the loop starts over
LoopBack ==
  /\ status = "running"
  /\ pc = "iter"
  /\ pc' = "loop"
  /\ event' = NoEvent
  /\ UNCHANGED <<parser_vars, open, eof, status, reads, ret, vocab, rdf_nested,
                 pushed_by, lib_vars>>

ReadStart ==
  /\ CanRead
  /\ ~eof
  /\ Len(open) < MaxDepth
  /\ bnodes < MaxBnodes
  /\ \E name \in Names, attrs \in AttrLists(vocab, Len(open)) :
       LET e == Event("Start", name, attrs, <<>>)
       IN  \E order \in Orderings(PropertyKeys(St, e)) :
             Dispatch(element_start(St, e, order), e, Append(open, name))

ReadEmpty ==
  /\ CanRead
  /\ ~eof
  /\ \E name \in Names, attrs \in AttrLists(vocab, Len(open)) :
       LET e == Event("Empty", name, attrs, <<>>)
       IN  Dispatch(element_empty(St, e), e, open)

ReadEnd ==
  /\ CanRead
  /\ ~eof
  /\ open # <<>>
  /\ LET e == Event("End", open[Len(open)], <<>>, <<>>)
     IN  Dispatch(element_end(St, e), e, Pop(open))

ReadText ==
  /\ CanRead
  /\ ~eof
  /\ \E t \in Texts :
       LET e == Event("Text", <<>>, <<>>, t)
       IN  Dispatch(element_text(St, e), e, open)

\* comments, declarations, processing instructions: the `_ => ()` arm
ReadOther ==
  /\ CanRead
  /\ ~eof
  /\ Dispatch(Some(St), Event("Other", <<>>, <<>>, <<>>), open)

\* Event::Eof: next returns None
ReadEof ==
  /\ CanRead
  /\ eof' = TRUE
  /\ event' = Event("Eof", <<>>, <<>>, <<>>)
  /\ reads' = IF reads < MaxReads THEN reads + 1 ELSE reads
  /\ ret' = RetNone
  /\ pc' = "idle"
  /\ UNCHANGED <<parser_vars, open, status, vocab, rdf_nested, pushed_by,
                 lib_vars>>

\* read_event returns an Err (ill-formed XML): unwrap panics
ReadError ==
  /\ CanRead
  /\ ~eof
  /\ Panic(Event("Error", <<>>, <<>>, <<>>))

Next ==
  \/ NextCall
  \/ NextPop
  \/ LoopBack
  \/ ReadStart
  \/ ReadEmpty
  \/ ReadEnd
  \/ ReadText
  \/ ReadOther
  \/ ReadEof
  \/ ReadError

Spec == Init /\ [][Next]_vars

\* ------------------------------------------------------------------------
\* The sinks at work: a caller feeds triples and asks for the outcome
\* ------------------------------------------------------------------------
\* a parser that is not running: XmlParser::new on a reader nobody reads
ParserIdle ==
  /\ namespaces = <<PrefixMappingDefault>>
  /\ lang = <<None>>
  /\ parents = <<>>
  /\ triples = <<>>
  /\ in_node = FALSE
  /\ bnodes = 0
  /\ text = None
  /\ open = <<>>
  /\ eof = FALSE
  /\ status = "running"
  /\ pc = "idle"
  /\ reads = 0
  /\ ret = NoRet
  /\ event = NoEvent
  /\ vocab = "subjects"
  /\ rdf_nested = FALSE
  /\ pushed_by = <<>>

\* Inserter::new / Remover::new on a graph that holds any of the triples
SinkInit ==
  /\ ParserIdle
  /\ PrefixIdle
  /\ NamespaceIdle
  /\ graph \in SUBSET SinkTriples
  /\ sink \in {SinkNew("Inserter"), SinkNew("Remover")}
  /\ sink_ret = NoRet
  /\ fed = <<>>

\* what a call of feed or finish returned
SinkRet(call, res) == [kind |-> call, item |-> res]

\* Inserter::feed(t): one call of graph.insert, then the count
InserterFeed ==
  /\ sink.kind = "Inserter"
  /\ Len(fed) < MaxFeeds
  /\ \E t \in SinkTriples : \E g \in GraphInsert(graph, t) :
       /\ graph' = g.graph
       /\ sink' = Inserter_feed(sink, g.res).self
       /\ sink_ret' = SinkRet("feed", Inserter_feed(sink, g.res).ret)
       /\ fed' = Append(fed, [t |-> t, op |-> "insert", res |-> g.res])
  /\ UNCHANGED <<parser_vars, reader_vars, pm_vars, ns_vars>>

\* Remover::feed(t): one call of graph.remove, then the count
RemoverFeed ==
  /\ sink.kind = "Remover"
  /\ Len(fed) < MaxFeeds
  /\ \E t \in SinkTriples : \E g \in GraphRemove(graph, t) :
       /\ graph' = g.graph
       /\ sink' = Remover_feed(sink, g.res).self
       /\ sink_ret' = SinkRet("feed", Remover_feed(sink, g.res).ret)
       /\ fed' = Append(fed, [t |-> t, op |-> "remove", res |-> g.res])
  /\ UNCHANGED <<parser_vars, reader_vars, pm_vars, ns_vars>>

\* Inserter::finish / Remover::finish
SinkFinish ==
  /\ sink_ret' = SinkRet("finish", finish(sink))
  /\ UNCHANGED <<parser_vars, reader_vars, graph, sink, fed, pm_vars, ns_vars>>

SinkNext ==
  \/ InserterFeed
  \/ RemoverFeed
  \/ SinkFinish

SinkSpec == SinkInit /\ [][SinkNext]_vars

\* ------------------------------------------------------------------------
\* A prefix mapping at work: a caller binds prefixes and expands names
\* ------------------------------------------------------------------------
\* the prefixes, namespace texts and names the caller passes
Prefixes == {StrXml, <<"e","x">>, StrUnderscore, <<>>}

NamespaceTexts == {ExNs, RdfPrefix, <<"h"," ">>}

Curies ==
  {<<"x","m","l",":","a">>, <<"e","x",":","a",":","b">>, <<"e","x">>,
   <<"_",":","b">>, <<"e","x",":","a"," ">>, <<":","a">>}

PrefixInit ==
  /\ ParserIdle
  /\ SinkIdle
  /\ PrefixIdle
  /\ NamespaceIdle

\* mapping.add_prefix(prefix, value)
AddPrefix ==
  /\ ~pm_ret.panicked
  /\ \E prefix \in Prefixes, value \in NamespaceTexts :
       LET r == add_prefix(mapping, prefix, value)
       IN  IF IsSome(r)
           THEN /\ mapping' = Unwrap(r)
                /\ pm_ret' = PmRet("add_prefix", <<prefix, value>>, None, FALSE)
           ELSE /\ mapping' = mapping
                /\ pm_ret' = PmRet("add_prefix", <<prefix, value>>, None, TRUE)
  /\ UNCHANGED <<parser_vars, reader_vars, sink_vars, ns_vars>>

\* mapping.expand_curie_string(curie_str)
ExpandCurieString ==
  /\ ~pm_ret.panicked
  /\ \E curie_str \in Curies :
       LET r == expand_curie_string(mapping, curie_str)
       IN  pm_ret' = PmRet("expand_curie_string", curie_str, r, ~IsSome(r))
  /\ UNCHANGED <<parser_vars, reader_vars, sink_vars, ns_vars, mapping>>

PrefixNext ==
  \/ AddPrefix
  \/ ExpandCurieString

PrefixSpec == PrefixInit /\ [][PrefixNext]_vars

\* ------------------------------------------------------------------------
\* Namespaces at work (ns.rs): a caller builds namespaces and IRIs
\* ------------------------------------------------------------------------
\* Iri::new_suffixed(ns, suffix): None stands for Err(InvalidIri); keep tells
\* whether an empty suffix is kept as Some("")
IriNewSuffixed(ns, suffix, keep) ==
  IF IsValidIriRef(ns \o suffix)
  THEN Some([ns |-> ns,
             suffix |-> IF suffix = <<>> /\ ~keep THEN None ELSE Some(suffix)])
  ELSE None

\* Iri::clone_no_suffix: the same IRI held as one text
clone_no_suffix(iri) ==
  [ns |-> iri.ns \o (IF IsSome(iri.suffix) THEN Unwrap(iri.suffix) ELSE <<>>),
   suffix |-> None]

\* Namespace::get_iri
get_iri(ns, suffix, keep) == IriNewSuffixed(ns, suffix, keep)

\* Term::from(Iri): the term of an Iri
IriTerm(iri) == Iri(clone_no_suffix(iri).ns)

\* Namespace::get: get_iri(suffix).map(Into::into)
get(ns, suffix, keep) ==
  IF IsSome(get_iri(ns, suffix, keep))
  THEN Some(IriTerm(Unwrap(get_iri(ns, suffix, keep))))
  ELSE None

\* TryFrom<Iri> for Namespace
try_from(iri) ==
  IF IsSome(iri.suffix) THEN Err("IsSuffixed") ELSE OkVal(iri.ns)

\* the texts, suffixes and string storage types the caller uses
NsTexts == {<<"h","/">>, <<"h","/","n">>, <<"h"," ">>}

Suffixes == {<<"n">>, <<"n","a">>, <<"a">>, <<"n"," ">>, <<>>}

Storages == {"str", "Rc"}

\* the last two entries of a sequence extended by x
LastTwo(seq, x) == IF Len(seq) < 2 THEN Append(seq, x) ELSE <<seq[2], x>>

NamespaceInit ==
  /\ ParserIdle
  /\ SinkIdle
  /\ PrefixIdle
  /\ NamespaceIdle

\* Namespace::new(iri) on a text held in the storage type storage
NsNew ==
  /\ \E iri \in NsTexts, storage \in Storages :
       /\ ns_ret' = PmRet("new", iri, NamespaceNew(iri), FALSE)
       /\ nsp' = IF IsSome(NamespaceNew(iri))
                 THEN Some([ns |-> Unwrap(NamespaceNew(iri)), storage |-> storage])
                 ELSE nsp
  /\ UNCHANGED <<parser_vars, reader_vars, sink_vars, pm_vars, got>>

\* ns.get(suffix) on the namespace held
NsGet ==
  /\ IsSome(nsp)
  /\ \E suffix \in Suffixes, keep \in BOOLEAN :
       LET n == Unwrap(nsp)
       IN  /\ ns_ret' = PmRet("get", <<n.ns, suffix>>, get(n.ns, suffix, keep), FALSE)
           /\ got' = LastTwo(got, [ns |-> n.ns, suffix |-> suffix,
                                    storage |-> n.storage,
                                    iri |-> get_iri(n.ns, suffix, keep),
                                    term |-> get(n.ns, suffix, keep)])
  /\ UNCHANGED <<parser_vars, reader_vars, sink_vars, pm_vars, nsp>>

\* Namespace::try_from(iri) on an IRI obtained before, as it is or without
\* its suffix; the caller looks at the result and drops it
NsTryFrom ==
  /\ \E i \in 1..Len(got) :
       /\ IsSome(got[i].iri)
       /\ \E iri \in {Unwrap(got[i].iri), clone_no_suffix(Unwrap(got[i].iri))} :
            ns_ret' = PmRet("try_from", iri, try_from(iri), FALSE)
  /\ UNCHANGED <<parser_vars, reader_vars, sink_vars, pm_vars, got, nsp>>

NamespaceNext ==
  \/ NsNew
  \/ NsGet
  \/ NsTryFrom

NamespaceSpec == NamespaceInit /\ [][NamespaceNext]_vars

\* ------------------------------------------------------------------------
\* Properties
\* ------------------------------------------------------------------------
Running == status = "running"

\* the state right after the handler of an event of type t has run
After(t) == Running /\ pc = "iter" /\ event.type = t

\* the document read so far is well formed for the parser: rdf:RDF is the
\* root element and is never nested in another element
WellFormed == ~rdf_nested /\ (open = <<>> \/ open[1] = StrRdfRDF)

\* C1: after every event the namespaces stack and the lang stack have the
\* same length, the number of open XML elements plus one (a Start pushes one
\* frame on each, an End pops one from each, an Empty leaves both lengths).
C1_ScopeDepth ==
  Running => /\ Len(namespaces) = Len(lang)
             /\ Len(namespaces) = Len(open) + 1

\* C1 witness: an Empty event has been handled below two open elements
C1_Witness ==
  After("Empty") /\ Len(open) = 2 /\ Len(namespaces) = 3 /\ Len(lang) = 3

\* C2: after every event of a well-formed document parents holds one entry
\* per open element other than the rdf:RDF root (none when nothing or only
\* rdf:RDF is open).
C2_ParentsDepth ==
  (Running /\ WellFormed) =>
     Len(parents) = IF Len(open) <= 1 THEN 0 ELSE Len(open) - 1

\* C2 witness: four elements are open under an rdf:RDF root
C2_Witness ==
  /\ Running
  /\ WellFormed
  /\ Len(open) = 4
  /\ Len(parents) = 3

\* C3: in every reachable state the entries of parents alternate: an entry
\* at an even index (0, 2, ...) is a subject term (IRI or blank node) pushed
\* by node_start, an entry at an odd index is a predicate IRI pushed by
\* predicate_start.  (Sequences are 1-based: index 0 is position 1.)
C3_Striping ==
  Running =>
    \A i \in 1..Len(parents) :
      IF i % 2 = 1
      THEN pushed_by[i] = "node_start" /\ parents[i].kind \in {"Iri", "BNode"}
      ELSE pushed_by[i] = "predicate_start" /\ parents[i].kind = "Iri"

\* a step of next that returns the head of the queue
PopStep ==
  /\ triples # <<>>
  /\ triples' = Tail(triples)
  /\ ret' = RetSome(Head(triples))
  /\ pc' = "idle"

\* C4: the iterator delivers the queue in FIFO order and completely: with a
\* triple in the queue the loop does nothing but return its head and remove
\* it; the queue changes otherwise only when a handler fills the empty
\* queue; an event is read only when the queue is empty; and next returns
\* end-of-stream only on Eof with the queue empty.
C4_Fifo ==
  [][/\ (pc = "loop" /\ triples # <<>>) => PopStep
     /\ (triples' # triples) => (PopStep \/ (triples = <<>> /\ pc = "loop"))
     /\ (pc' = "iter") => (triples = <<>> /\ pc = "loop")
     /\ (ret'.kind = "some" /\ ret' # ret) => PopStep
     /\ (ret'.kind = "end" /\ ret' # ret) =>
          (triples = <<>> /\ triples' = <<>> /\ event'.type = "Eof")]_vars

\* C4 witness: a call has returned one triple and more are queued
C4_Witness ==
  Running /\ pc = "idle" /\ ret.kind = "some" /\ Len(triples) >= 2

\* C5 as stated: a call of next consumes at most one XML event.
C5_OneEventPerCall == Running => reads <= 1

\* C5 amended: every iteration of the loop of next either returns the head
\* of a populated queue without reading, or, the queue being empty, reads
\* exactly one event; a call ends only by returning a triple or on Eof, so
\* one call may read several events.
C5_OneEventPerIteration ==
  [][(pc = "loop" /\ status' = "running") =>
       IF triples # <<>>
       THEN reads' = reads /\ pc' = "idle" /\ ret'.kind = "some"
       ELSE /\ reads' = (IF reads < MaxReads THEN reads + 1 ELSE reads)
            /\ event'.type # "None"
            /\ \/ pc' = "iter"
               \/ pc' = "idle" /\ ret' = RetNone /\ event'.type = "Eof"]_vars

\* C5 witness: a call has returned a triple after reading two events
C5_Witness ==
  Running /\ pc = "idle" /\ ret.kind = "some" /\ reads = 2

\* the state right after node_start has handled a Start event
NodeStarted == After("Start") /\ event.name # StrRdfRDF /\ in_node

\* the attributes of e that node_start resolves, in the scope ns, to term
AttrsResolving(e, ns, term) ==
  {i \in 1..Len(e.attrs) :
     /\ ~StartsWith(e.attrs[i].key, StrXmlns)
     /\ expand_curie_string(ns, e.attrs[i].key) = Some(term)}

AttrValue(e, i) == Unwrap(unescape(e.attrs[i].value))

\* the subject C6 prescribes for a node element
ExpectedSubject(e, ns, counter) ==
  IF AttrsResolving(e, ns, rdf_about) # {}
  THEN Iri(AttrValue(e, CHOOSE i \in AttrsResolving(e, ns, rdf_about) : TRUE))
  ELSE IF AttrsResolving(e, ns, rdf_nodeID) # {}
  THEN BNode(<<"o">> \o
             AttrValue(e, CHOOSE i \in AttrsResolving(e, ns, rdf_nodeID) : TRUE))
  ELSE BNode(<<"n">> \o ToDec(counter))

\* C6: the subject a node Start pushes onto parents is the IRI of rdf:about
\* if present, else the blank node "o" + rdf:nodeID if present, else the
\* blank node "n" + the value the counter had when the event arrived.
C6_NodeSubject ==
  [][NodeStarted' =>
       /\ Len(parents') = Len(parents) + 1
       /\ parents'[Len(parents')] =
            ExpectedSubject(event', namespaces'[Len(namespaces')], bnodes)]_vars

\* C6 witness: a node with rdf:nodeID encloses a node that got the label n1
C6_Witness ==
  /\ NodeStarted
  /\ Len(parents) = 3
  /\ parents[1] = BNode(<<"o", "b">>)
  /\ parents[3] = BNode(<<"n", "1">>)

\* the name of the node element, resolved in the element's own scope
NodeType == Unwrap(expand_curie_string(namespaces[Len(namespaces)], event.name))

\* 1 when node_start enqueued a linking triple, else 0
NodeLinked == IF Len(parents) > 1 THEN 1 ELSE 0

\* 1 when the node element is not rdf:Description, else 0
NodeTyped == IF NodeType # rdf_Description THEN 1 ELSE 0

IsAttrTriple(t, s, e, ns) ==
  /\ t.ok
  /\ t.val[1] = s
  /\ \E i \in 1..Len(e.attrs) :
       /\ ~StartsWith(e.attrs[i].key, StrXmlns)
       /\ expand_curie_string(ns, e.attrs[i].key) = Some(t.val[2])
       /\ t.val[3] = LiteralDt(AttrValue(e, i), xsd_string)

\* C8: among the triples of one node Start the rdf:type triple (if any) is
\* first, the linking triple (if any) is last, and the attribute-derived
\* triples stand between them.
C8_NodeTripleOrder ==
  NodeStarted =>
    LET n == Len(triples)
        s == parents[Len(parents)]
    IN  /\ n >= NodeTyped + NodeLinked
        /\ NodeTyped = 1 => triples[1] = Ok(s, rdf_type, NodeType)
        /\ NodeLinked = 1 =>
             triples[n] = Ok(parents[Len(parents) - 2],
                             parents[Len(parents) - 1], s)
        /\ \A i \in (NodeTyped + 1)..(n - NodeLinked) :
             IsAttrTriple(triples[i], s, event, namespaces[Len(namespaces)])

\* C8 witness: a nested typed node with one property attribute
C8_Witness ==
  /\ NodeStarted
  /\ NodeTyped = 1
  /\ NodeLinked = 1
  /\ Len(triples) = 3

\* the first attribute of e whose key resolves to the predicate p
FirstAttr(e, ns, p) ==
  CHOOSE i \in AttrsResolving(e, ns, p) :
    \A j \in AttrsResolving(e, ns, p) : i <= j

\* C9: the attribute-derived triples of a node are enqueued in the order of
\* the element's attributes.
C9_AttributeOrder ==
  NodeStarted =>
    LET ns == namespaces[Len(namespaces)]
        lo == NodeTyped + 1
        hi == Len(triples) - NodeLinked
    IN  \A i, j \in lo..hi :
          i < j => FirstAttr(event, ns, triples[i].val[2])
                     < FirstAttr(event, ns, triples[j].val[2])

\* the attributes of e that are neither xmlns declarations, nor rdf:about,
\* rdf:ID, rdf:nodeID, nor xml:lang
PropertyAttrs(e, ns) ==
  {i \in 1..Len(e.attrs) :
     /\ ~StartsWith(e.attrs[i].key, StrXmlns)
     /\ Unwrap(expand_curie_string(ns, e.attrs[i].key))
          \notin {rdf_about, rdf_ID, rdf_nodeID, xml_lang}}

\* C10: a node Start enqueues exactly one triple (subject, attribute IRI,
\* value typed xsd:string) for every attribute that is not an xmlns
\* declaration, a subject marker or xml:lang, and as many attribute-derived
\* triples as there are such attributes.
C10_AttributeTriples ==
  NodeStarted =>
    LET ns == namespaces[Len(namespaces)]
        s == parents[Len(parents)]
        lo == NodeTyped + 1
        hi == Len(triples) - NodeLinked
    IN  /\ hi - lo + 1 = Cardinality(PropertyAttrs(event, ns))
        /\ \A a \in PropertyAttrs(event, ns) :
             Cardinality({i \in lo..hi :
               triples[i] = Ok(s, Unwrap(expand_curie_string(ns, event.attrs[a].key)),
                               LiteralDt(AttrValue(event, a), xsd_string))}) = 1

\* a step of next that reads an event of type t
Reads(t) == CanRead /\ event'.type = t

\* a step that reads the Start of an element in node position, the element
\* carrying no attribute and a name that resolves in the scope in force
PlainNodeStart ==
  /\ Reads("Start")
  /\ ~in_node
  /\ event'.name # StrRdfRDF
  /\ event'.attrs = <<>>
  /\ IsSome(expand_curie_string(namespaces[Len(namespaces)], event'.name))

\* C11: a node element that starts while parents is non-empty enqueues
\* exactly one linking triple (S, P, subject), P the top of parents before
\* the push and S the entry below it; a node that starts while parents is
\* empty enqueues no linking triple.
C11_LinkTriple ==
  [][PlainNodeStart =>
       /\ status' = "running"
       /\ LET subject == parents'[Len(parents')]
              links == {i \in 1..Len(triples') : triples'[i].val[3] = subject}
          IN  IF parents # <<>>
              THEN /\ Cardinality(links) = 1
                   /\ Len(parents) >= 2
                   /\ triples'[Len(triples')] =
                        Ok(parents[Len(parents) - 1], parents[Len(parents)],
                           subject)
              ELSE links = {}]_vars

\* a step that reads the Start of an element in predicate position and
\* completes
PredicateStarted ==
  /\ Reads("Start")
  /\ in_node
  /\ event'.name # StrRdfRDF
  /\ status' = "running"

\* a step that reads the End of an element in predicate position
PredicateEnd ==
  /\ Reads("End")
  /\ ~in_node
  /\ event'.name # StrRdfRDF

\* the datatype the attributes of e give to a predicate, in the scope ns
ExpectedDatatype(e, ns) ==
  LET ds == AttrsResolving(e, ns, rdf_datatype)
  IN  IF ds = {} THEN None
      ELSE Some(Iri(AttrValue(e, CHOOSE i \in ds : \A j \in ds : j <= i)))

\* the literal C12 prescribes for character data txt, the datatype dt of the
\* predicate's Start and the language tag in scope
ExpectedLiteral(txt, dt, tag) ==
  IF IsSome(dt) THEN LiteralDt(txt, Unwrap(dt))
  ELSE IF IsSome(tag) THEN LiteralLang(txt, Unwrap(tag))
  ELSE LiteralDt(txt, xsd_string)

\* C12: the Start of a predicate records the rdf:datatype it carries, and
\* the literal emitted at its End is typed with that datatype if there is
\* one (whatever xml:lang is in scope), else tagged with the language in
\* scope if there is one, else typed xsd:string; the triple's subject is
\* parents[len-2] and its predicate, the End name resolved as a CURIE, is
\* parents[len-1].
C12_LiteralKind ==
  [][/\ PredicateStarted =>
          text' = Some(Text(ExpectedDatatype(event',
                                             namespaces'[Len(namespaces')]),
                            <<>>))
     /\ (PredicateEnd /\ IsSome(text) /\ status' = "running") =>
          /\ Len(parents) >= 2
          /\ expand_curie_string(namespaces[Len(namespaces)], event'.name)
               = Some(parents[Len(parents)])
          /\ triples' =
               <<Ok(parents[Len(parents) - 1], parents[Len(parents)],
                    ExpectedLiteral(Unwrap(text).text, Unwrap(text).datatype,
                                    lang[Len(lang)]))>>]_vars

\* C12 witness: a predicate with rdf:datatype inside a node with xml:lang
\* has ended with a literal typed with the datatype
C12_Witness ==
  /\ After("End")
  /\ lang[Len(lang)] = Some(<<"e", "n">>)
  /\ Len(triples) = 1
  /\ triples[1].val[3] = LiteralDt(<<"t">>, Iri(XsdInt))

\* C13 as stated: the End of a predicate element emits a literal triple only
\* if the text accumulator is present and its character data is non-empty.
C13_NoEmptyLiteral ==
  [][(PredicateEnd /\ status' = "running" /\ triples' # <<>>) =>
       (IsSome(text) /\ Unwrap(text).text # <<>>)]_vars

\* C13 amended: the Start of a predicate element creates the accumulator
\* with empty character data, only the handling of an event changes it, and
\* an End of a predicate element that completes emits one literal triple
\* with the accumulated character data, empty or not, when the accumulator
\* is present and no triple when it is absent.
C13_LiteralIffText ==
  [][/\ PredicateStarted => (IsSome(text') /\ Unwrap(text').text = <<>>)
     /\ ~CanRead => text' = text
     /\ (PredicateEnd /\ status' = "running") =>
          IF IsSome(text)
          THEN /\ Len(triples') = 1
               /\ triples'[1].val[3].kind \in {"LiteralDt", "LiteralLang"}
               /\ triples'[1].val[3].value = Unwrap(text).text
          ELSE triples' = <<>>]_vars

\* C13 witness: a predicate element has ended right after its Start and has
\* emitted the literal with the empty lexical form
C13_Witness ==
  /\ After("End")
  /\ Len(triples) = 1
  /\ triples[1].val[3] = LiteralDt(<<>>, xsd_string)

\* the xml:lang attributes of the element e
LangAttrs(e) == {i \in 1..Len(e.attrs) : e.attrs[i].key = StrXmlLang}

\* the language frame of an element e whose parent frame is inherited
ExpectedLang(e, inherited) ==
  IF LangAttrs(e) = {} THEN inherited
  ELSE Some(AttrValue(e, CHOOSE i \in LangAttrs(e) :
                           \A j \in LangAttrs(e) : j <= i))

\* C14: the frame a Start pushes on lang is the xml:lang value of the
\* element if it carries one, else the frame of its parent; an End removes
\* exactly that frame, so the tag in force is again the one before the
\* Start; no other step changes lang; and the tag of a language-tagged
\* literal emitted at a predicate's End is the one in the predicate's frame.
C14_LangScope ==
  [][/\ (Reads("Start") /\ status' = "running") =>
          lang' = Append(lang, ExpectedLang(event', lang[Len(lang)]))
     /\ (Reads("End") /\ status' = "running") =>
          lang' = SubSeq(lang, 1, Len(lang) - 1)
     /\ (status' = "running" /\ ~Reads("Start") /\ ~Reads("End")) =>
          lang' = lang
     /\ (PredicateEnd /\ status' = "running" /\ triples' # <<>>
           /\ triples'[1].val[3].kind = "LiteralLang") =>
          Some(triples'[1].val[3].tag) = lang[Len(lang)]]_vars

\* C14 witness: a predicate with xml:lang="de" inside a node with
\* xml:lang="en" has ended: its literal is tagged de, the tag in force is en
C14_Witness ==
  /\ After("End")
  /\ lang[Len(lang)] = Some(<<"e", "n">>)
  /\ Len(triples) = 1
  /\ triples[1].val[3].kind = "LiteralLang"
  /\ triples[1].val[3].tag = <<"d", "e">>

\* C15: an element carrying xml:lang="" pushes the frame 'no tag' on lang.
C15_EmptyLangClears ==
  [][(/\ Reads("Start")
      /\ status' = "running"
      /\ LangAttrs(event') # {}
      /\ \A i \in LangAttrs(event') : event'.attrs[i].value = <<>>) =>
       lang'[Len(lang')] = None]_vars

\* the attributes of e carry no namespace declaration and no repeated key,
\* and the keys and the name of e resolve in the scope ns
Resolvable(e, ns) ==
  /\ ~AttrsErr(e.attrs)
  /\ IsSome(expand_curie_string(ns, e.name))
  /\ \A i \in 1..Len(e.attrs) :
       /\ ~StartsWith(e.attrs[i].key, StrXmlns)
       /\ IsSome(expand_curie_string(ns, e.attrs[i].key))

\* a step that reads an Empty element in predicate position whose name and
\* attributes resolve in the scope in force
EmptyPredicate ==
  /\ Reads("Empty")
  /\ in_node
  /\ Resolvable(event', namespaces[Len(namespaces)])

\* the object annotations of the element e: rdf:resource and rdf:nodeID
ResourceAttrs(e, ns) == AttrsResolving(e, ns, rdf_resource)

NodeIDAttrs(e, ns) == AttrsResolving(e, ns, rdf_nodeID)

\* the object C16 prescribes for an element with one object annotation
ExpectedObject(e, ns) ==
  IF ResourceAttrs(e, ns) # {}
  THEN Iri(AttrValue(e, CHOOSE i \in ResourceAttrs(e, ns) : TRUE))
  ELSE BNode(<<"o">> \o AttrValue(e, CHOOSE i \in NodeIDAttrs(e, ns) : TRUE))

\* C16: an Empty event in predicate position carrying exactly one of
\* rdf:resource / rdf:nodeID enqueues exactly one triple (top of parents, p,
\* object) and leaves parents, in_node, namespaces, lang and the blank-node
\* counter as they were.
C16_EmptyPredicate ==
  [][(/\ EmptyPredicate
      /\ Cardinality(ResourceAttrs(event', namespaces[Len(namespaces)])
                     \cup NodeIDAttrs(event', namespaces[Len(namespaces)])) = 1) =>
       /\ status' = "running"
       /\ parents # <<>>
       /\ triples' =
            <<Ok(parents[Len(parents)],
                 Unwrap(expand_curie_string(namespaces[Len(namespaces)],
                                            event'.name)),
                 ExpectedObject(event', namespaces[Len(namespaces)]))>>
       /\ parents' = parents
       /\ in_node' = in_node
       /\ namespaces' = namespaces
       /\ lang' = lang
       /\ bnodes' = bnodes]_vars

\* C17: an empty predicate element (read with a subject on parents) is
\* rejected exactly when it carries both rdf:resource and rdf:nodeID; with
\* zero or one of them it is accepted and processing continues.
C17_AmbiguousObject ==
  [][(EmptyPredicate /\ parents # <<>>) =>
       (status' = "panicked" <=>
          /\ ResourceAttrs(event', namespaces[Len(namespaces)]) # {}
          /\ NodeIDAttrs(event', namespaces[Len(namespaces)]) # {})]_vars

\* the subject annotations of the element e, by kind
SubjectKinds(e, ns) ==
  {k \in {rdf_about, rdf_ID, rdf_nodeID} : AttrsResolving(e, ns, k) # {}}

\* C18: a node element carrying more than one of rdf:about, rdf:ID and
\* rdf:nodeID fails and yields no subject.
C18_AmbiguousSubject ==
  [][(/\ Reads("Start")
      /\ ~in_node
      /\ event'.name # StrRdfRDF
      /\ Resolvable(event', namespaces[Len(namespaces)])
      /\ Cardinality(SubjectKinds(event', namespaces[Len(namespaces)])) > 1) =>
       (status' = "panicked" /\ parents' = <<>>)]_vars

\* C19: when the event source reports Eof while elements are still open,
\* next does not end the stream as if the document were complete.
C19_UnexpectedEof ==
  [][(Reads("Eof") /\ (Len(namespaces) > 1 \/ Len(lang) > 1 \/ parents # <<>>)) =>
       ret' # RetNone]_vars

\* C20: no error aborts the iteration: the parser is never left in the
\* panicked state, every error being an Err item that next returns.
C20_ErrorsAreItems == status # "panicked"

\* C21: the rdf:RDF root element neither flips in_node nor changes parents,
\* at its Start and at its End, and enqueues no triple; an empty root
\* element <rdf:RDF/> enqueues no triple and leaves in_node, parents and
\* both scope stacks as they were.
C21_Wrapper ==
  [][/\ (Reads("Start") /\ event'.name = StrRdfRDF /\ open = <<>>
           /\ status' = "running") =>
          (in_node' = in_node /\ parents' = parents /\ triples' = <<>>)
     /\ (Reads("End") /\ event'.name = StrRdfRDF /\ Len(open) = 1
           /\ status' = "running") =>
          (in_node' = in_node /\ parents' = parents /\ triples' = <<>>)
     /\ (Reads("Empty") /\ event'.name = StrRdfRDF /\ open = <<>>
           /\ status' = "running") =>
          /\ triples' = <<>>
          /\ in_node' = in_node
          /\ parents' = parents
          /\ namespaces' = namespaces
          /\ lang' = lang]_vars

\* C21 witness: the rdf:RDF root has ended after a node inside it
C21_Witness ==
  /\ After("End")
  /\ event.name = StrRdfRDF
  /\ open = <<>>
  /\ bnodes = 1
  /\ ~in_node
  /\ parents = <<>>

\* t is a blank node whose label the parser generated from a counter value
\* below n
GeneratedBelow(t, n) ==
  /\ t.kind = "BNode"
  /\ \E k \in 0..(n - 1) : t.value = <<"n">> \o ToDec(k)

\* t is a blank node with a label that starts with the character c
LabelStarts(t, c) == t.kind = "BNode" /\ t.value # <<>> /\ t.value[1] = c

\* C22: the blank-node counter never decreases and never repeats a value:
\* every node Start advances it, a node element without subject annotation
\* is labelled with the value before the step, and that label differs from
\* every generated label on parents, all of which come from lower values.
C22_FreshBNodes ==
  [][status' = "running" =>
       /\ bnodes' >= bnodes
       /\ \A i \in 1..Len(parents) :
            LabelStarts(parents[i], "n") => GeneratedBelow(parents[i], bnodes)
       /\ NodeStarted' =>
            /\ bnodes' = bnodes + 1
            /\ SubjectKinds(event', namespaces'[Len(namespaces')])
                 \subseteq {rdf_ID} =>
                 /\ parents'[Len(parents')] = BNode(<<"n">> \o ToDec(bnodes))
                 /\ \A i \in 1..Len(parents) :
                      parents[i] # parents'[Len(parents')]]_vars

\* C22 witness: two nested node elements without annotation are open, the
\* outer labelled n0 and the inner n1
C22_Witness ==
  /\ NodeStarted
  /\ event.attrs = <<>>
  /\ Len(parents) = 3
  /\ parents[1] = BNode(<<"n", "0">>)
  /\ parents[3] = BNode(<<"n", "1">>)

\* the blank node C23 assigns to the rdf:nodeID annotation of the element e
NodeIDTerm(e, ns) ==
  BNode(<<"o">> \o AttrValue(e, CHOOSE i \in NodeIDAttrs(e, ns) : TRUE))

\* the terms held by the parser: on parents, and the subjects and objects
\* in the queue
HeldTerms ==
  {parents[i] : i \in 1..Len(parents)}
    \cup {triples[i].val[k] : i \in 1..Len(triples), k \in {1, 3}}

HeldBNodes == {t \in HeldTerms : t.kind = "BNode"}

\* C23: rdf:nodeID="v" denotes the blank node labelled "o"+v both on a node
\* element (as its subject) and on an empty predicate element (as the
\* object); a blank node the parser holds is labelled either "o"+... (from
\* an rdf:nodeID) or "n"+... (generated), so the two kinds are never equal.
C23_NodeIDBNodes ==
  [][status' = "running" =>
       /\ (NodeStarted'
             /\ AttrsResolving(event', namespaces'[Len(namespaces')],
                               rdf_about) = {}
             /\ NodeIDAttrs(event', namespaces'[Len(namespaces')]) # {}) =>
            parents'[Len(parents')] =
              NodeIDTerm(event', namespaces'[Len(namespaces')])
       /\ (Reads("Empty") /\ in_node
             /\ ResourceAttrs(event', namespaces[Len(namespaces)]) = {}) =>
            /\ NodeIDAttrs(event', namespaces[Len(namespaces)]) # {}
            /\ triples'[1].val[3] =
                 NodeIDTerm(event', namespaces[Len(namespaces)])
       /\ \A t \in HeldBNodes' : LabelStarts(t, "o") \/ LabelStarts(t, "n")
       /\ \A t, u \in HeldBNodes' :
            (LabelStarts(t, "o") /\ GeneratedBelow(u, bnodes')) => t # u]_vars

\* C23 witness: rdf:nodeID="b" on a node element and on an empty predicate
\* element inside it: the triple has the same blank node as subject and
\* object
C23_Witness ==
  /\ After("Empty")
  /\ Len(triples) = 1
  /\ triples[1].val[1] = BNode(<<"o", "b">>)
  /\ triples[1].val[3] = BNode(<<"o", "b">>)

\* the permutations of 1..n
Perms(n) == {f \in [1..n -> 1..n] : \A i, j \in 1..n : f[i] = f[j] => i = j}

\* the element e with its attributes written in the order f
Reordered(e, f) ==
  Event(e.type, e.name, [i \in 1..Len(e.attrs) |-> e.attrs[f[i]]], e.text)

Count(seq, x) == Cardinality({i \in 1..Len(seq) : seq[i] = x})

\* two sequences hold the same elements the same number of times
SameBag(a, b) ==
  /\ Len(a) = Len(b)
  /\ \A i \in 1..Len(a) : Count(a, a[i]) = Count(b, a[i])

\* C24: had the attributes of a Start or Empty element been written in any
\* other order, the parser would have enqueued the same multiset of triples
\* for the element.
C24_AttributeOrderBag ==
  [][((Reads("Start") \/ Reads("Empty")) /\ status' = "running") =>
       \A f \in Perms(Len(event'.attrs)) :
         LET e2 == Reordered(event', f)
         IN  \A order \in Orderings(PropertyKeys(St, e2)) :
               LET r == IF e2.type = "Start" THEN element_start(St, e2, order)
                        ELSE element_empty(St, e2)
               IN  IsSome(r) /\ SameBag(Unwrap(r).triples, triples')]_vars

\* the feeds of f whose graph operation returned true
TrueFeeds(f) == {i \in 1..Len(f) : f[i].res.ok /\ f[i].res.val}

\* a step that is one call of feed
FeedStep == Len(fed') = Len(fed) + 1

\* a step that is one call of finish, or leaves the outcome of one in place
FinishStep == sink_ret'.kind = "finish" /\ fed' = fed

\* C25: for both sinks finish returns the number of feeds whose graph
\* operation (insert for Inserter, remove for Remover) returned true; a feed
\* whose operation returned false or an error leaves the counter unchanged;
\* each feed performs exactly one graph operation, at once. An Inserter on a
\* graph with set semantics counts a triple fed twice once, and a Remover
\* counts only triples that were present.
C25_SinkCount ==
  /\ [](sink.count = Cardinality(TrueFeeds(fed)))
  /\ [][/\ FinishStep =>
             /\ sink_ret'.item.ok
             /\ sink_ret'.item.val = Cardinality(TrueFeeds(fed))
        /\ FeedStep =>
             LET f == fed'[Len(fed')]
             IN  /\ f.op = (IF sink.kind = "Inserter" THEN "insert" ELSE "remove")
                 /\ [res |-> f.res, graph |-> graph'] \in
                      (IF sink.kind = "Inserter" THEN GraphInsert(graph, f.t)
                       ELSE GraphRemove(graph, f.t))
                 /\ (f.res.ok /\ f.res.val) => sink'.count = sink.count + 1
                 /\ ~(f.res.ok /\ f.res.val) => sink'.count = sink.count
                 /\ (sink.kind = "Inserter" /\ f.t \in graph) =>
                      sink'.count = sink.count
                 /\ (sink.kind = "Remover" /\ f.t \notin graph) =>
                      sink'.count = sink.count]_vars

\* an Inserter was fed the same triple twice and then failed on a third feed:
\* finish returned 1
C25_Witness ==
  /\ sink.kind = "Inserter"
  /\ Len(fed) = 3
  /\ fed[1].t = fed[2].t
  /\ fed[1].res.ok /\ fed[1].res.val
  /\ fed[2].res.ok /\ ~fed[2].res.val
  /\ ~fed[3].res.ok
  /\ sink_ret = SinkRet("finish", OkVal(1))

\* a graph operation of the feeds f failed
Failed(f) == \E i \in 1..Len(f) : ~f[i].res.ok

\* the error of the first failed operation of f
FirstError(f) ==
  f[CHOOSE i \in 1..Len(f) :
      ~f[i].res.ok /\ \A j \in 1..(i - 1) : f[j].res.ok].res

\* C26 as stated: a failed graph operation is surfaced unchanged, no further
\* triple is applied after the first error, and finish returns that error
\* rather than a count.
C26_SinkShortCircuit ==
  [][/\ (FeedStep /\ ~fed'[Len(fed')].res.ok) =>
          /\ ~sink_ret'.item.ok
          /\ sink_ret'.item.val = fed'[Len(fed')].res.val
     /\ (FeedStep /\ Failed(fed)) => graph' = graph
     /\ (FinishStep /\ Failed(fed)) =>
          /\ ~sink_ret'.item.ok
          /\ sink_ret'.item.val = FirstError(fed).val]_vars

\* C26, amended: a failed graph operation is surfaced unchanged by the feed
\* that made it, which leaves the counter as it was; the sink keeps no record
\* of the error: a later feed performs its graph operation as any other, and
\* finish returns the count, never an error.
C26_FeedSurfacesError ==
  [][/\ (FeedStep /\ ~fed'[Len(fed')].res.ok) =>
          /\ ~sink_ret'.item.ok
          /\ sink_ret'.item.val = fed'[Len(fed')].res.val
          /\ sink'.count = sink.count
     /\ (FeedStep /\ fed'[Len(fed')].res.ok) =>
          /\ sink_ret'.item.ok
          /\ graph' = (IF sink.kind = "Inserter"
                       THEN graph \cup {fed'[Len(fed')].t}
                       ELSE graph \ {fed'[Len(fed')].t})
     /\ FinishStep =>
          /\ sink_ret'.item.ok
          /\ sink_ret'.item.val = Cardinality(TrueFeeds(fed))]_vars

\* a Remover whose first operation failed removed a triple on the next feed,
\* and finish returned the count 1
C26_Witness ==
  /\ sink.kind = "Remover"
  /\ Len(fed) = 2
  /\ ~fed[1].res.ok
  /\ fed[2].res.ok /\ fed[2].res.val
  /\ fed[2].t \notin graph
  /\ sink_ret = SinkRet("finish", OkVal(1))

\* a step that is one call of expand_curie_string on the name c
Expands(c) ==
  /\ ~pm_ret.panicked
  /\ pm_ret'.call = "expand_curie_string"
  /\ pm_ret'.arg = c

\* the text before the first ':' of c, and the text after it
CuriePrefix(c) == SubSeq(c, 1, Position(c, ":") - 1)

CurieLocal(c) == SubSeq(c, Position(c, ":") + 1, Len(c))

\* C27: expand_curie_string(s) splits s at its first ':'; with no ':' it
\* fails with MissingPrefix, with an unbound prefix with UnknownPrefix, both
\* errors handed to the caller; otherwise it returns the IRI namespace+local.
\* A fresh mapping resolves xml; '_' is never bound, add_prefix with '_'
\* failing with an error and leaving the mapping as it was.
C27_ExpandCurie ==
  /\ [](StrUnderscore \notin DOMAIN mapping)
  /\ [](~pm_ret.panicked)
  /\ [][\A c \in Curies : Expands(c) =>
          IF Position(c, ":") = 0 \/ CuriePrefix(c) \notin DOMAIN mapping
          THEN ~IsSome(pm_ret'.item)
          ELSE pm_ret'.item =
                 Some(Iri(mapping[CuriePrefix(c)] \o CurieLocal(c)))]_vars

\* C28: Namespace::new(iri) succeeds exactly when iri is a valid IRI
\* reference and returns InvalidIri otherwise; get(suffix) returns the IRI
\* term of namespace+suffix, or an error when that text is not a valid IRI;
\* two results of get are equal terms exactly when namespace+suffix is the
\* same text, whatever the storage types; converting a suffixed Iri into a
\* Namespace fails with IsSuffixed.
C28_Namespace ==
  /\ ns_ret.call = "new" =>
       /\ IsSome(ns_ret.item) <=> IsValidIriRef(ns_ret.arg)
       /\ IsSome(ns_ret.item) => Unwrap(ns_ret.item) = ns_ret.arg
  /\ ns_ret.call = "get" =>
       ns_ret.item = (IF IsValidIriRef(ns_ret.arg[1] \o ns_ret.arg[2])
                      THEN Some(Iri(ns_ret.arg[1] \o ns_ret.arg[2]))
                      ELSE None)
  /\ \A i, j \in 1..Len(got) :
       (IsSome(got[i].term) /\ IsSome(got[j].term)) =>
         (got[i].term = got[j].term <=>
            got[i].ns \o got[i].suffix = got[j].ns \o got[j].suffix)
  /\ ns_ret.call = "try_from" =>
       IF IsSome(ns_ret.arg.suffix)
       THEN ~ns_ret.item.ok /\ ns_ret.item.val = "IsSuffixed"
       ELSE ns_ret.item.ok /\ ns_ret.item.val = ns_ret.arg.ns

\* two namespaces of different texts and storage types gave the same term,
\* and the conversion of a suffixed Iri has just failed
C28_Witness ==
  /\ Len(got) = 2
  /\ got[1].ns # got[2].ns
  /\ got[1].storage # got[2].storage
  /\ IsSome(got[1].term)
  /\ got[1].term = got[2].term
  /\ ns_ret.call = "try_from"
  /\ ~ns_ret.item.ok

\* the event e read as the Start of an element, and the End that closes it
AsStart(e) == Event("Start", e.name, e.attrs, <<>>)

AsEnd(e) == Event("End", e.name, <<>>, <<>>)

\* the parser after the Start of e, taken in the given order, and its End
StartEnd(st, e, order) ==
  LET r1 == element_start(st, AsStart(e), order)
  IN  IF IsSome(r1) THEN element_end(Unwrap(r1), AsEnd(e)) ELSE None

\* C29: an Empty event in node position is equivalent to the same element
\* opened and closed at once: where its Start followed by its End go
\* through, the Empty enqueues the triples they enqueue (rdf:type triple,
\* attribute triples, parent link) and leaves in_node, parents and the scope
\* stacks as they do.
C29_EmptyNode ==
  [][(/\ Reads("Empty")
      /\ ~in_node
      /\ event'.name # StrRdfRDF
      /\ status' = "running"
      /\ \E order \in Orderings(PropertyKeys(St, AsStart(event'))) :
           IsSome(StartEnd(St, event', order))) =>
       \E order \in Orderings(PropertyKeys(St, AsStart(event'))) :
         LET r2 == StartEnd(St, event', order)
         IN  /\ IsSome(r2)
             /\ triples' = Unwrap(r2).triples
             /\ in_node' = Unwrap(r2).in_node
             /\ parents' = Unwrap(r2).parents
             /\ namespaces' = Unwrap(r2).namespaces
             /\ lang' = Unwrap(r2).lang]_vars

\* the prefixes the element e declares with xmlns:p attributes
Declared(e) ==
  {SubSeq(e.attrs[i].key, 7, Len(e.attrs[i].key)) :
     i \in {j \in 1..Len(e.attrs) : StartsWith(e.attrs[j].key, StrXmlnsColon)}}

\* the value of the declaration of the prefix q on e
DeclaredValue(e, q) ==
  e.attrs[CHOOSE i \in 1..Len(e.attrs) :
            e.attrs[i].key = StrXmlnsColon \o q].value

\* the namespace frame of an element e whose parent frame is inherited: the
\* declarations of e, and the bindings of the parent for every other prefix
ExpectedFrame(e, inherited) ==
  [q \in (DOMAIN inherited) \cup Declared(e) |->
     IF q \in Declared(e) THEN DeclaredValue(e, q) ELSE inherited[q]]

\* C30: namespace bindings follow element scope. The frame a Start pushes
\* holds the element's own xmlns:p declarations over the bindings of its
\* parent; the element's name and attributes are resolved in that frame; an
\* End removes exactly that frame, so the top frame is again the one before
\* the Start; an Empty event and every other step leave the stack as it was.
C30_NamespaceScope ==
  [][/\ (Reads("Start") /\ status' = "running") =>
          LET F == ExpectedFrame(event', namespaces[Len(namespaces)])
          IN  /\ namespaces' = Append(namespaces, F)
              /\ (in_node /\ event'.name # StrRdfRDF) =>
                   Some(parents'[Len(parents')]) =
                     expand_curie_string(F, event'.name)
              /\ (~in_node /\ event'.name # StrRdfRDF
                    /\ expand_curie_string(F, event'.name) # Some(rdf_Description)) =>
                   \E k \in 1..Len(triples') :
                     /\ triples'[k].val[2] = rdf_type
                     /\ Some(triples'[k].val[3]) =
                          expand_curie_string(F, event'.name)
              /\ (~in_node /\ event'.name # StrRdfRDF) =>
                   \A k \in 1..Len(triples') :
                     triples'[k].val[3].kind \in {"LiteralDt", "LiteralLang"} =>
                       \E i \in 1..Len(event'.attrs) :
                         Some(triples'[k].val[2]) =
                           expand_curie_string(F, event'.attrs[i].key)
     /\ (Reads("End") /\ status' = "running") =>
          namespaces' = SubSeq(namespaces, 1, Len(namespaces) - 1)
     /\ (status' = "running" /\ ~Reads("Start") /\ ~Reads("End")) =>
          namespaces' = namespaces]_vars

\* C30 witness: a node element that redeclares ex has started below an
\* element that binds ex otherwise: its rdf:type is resolved with its own
\* declaration, which shadows the binding of the frame below
C30_Witness ==
  /\ After("Start")
  /\ in_node
  /\ Len(namespaces) >= 3
  /\ <<"e","x">> \in DOMAIN namespaces[Len(namespaces) - 1]
  /\ namespaces[Len(namespaces)][<<"e","x">>] = RdfPrefix
  /\ namespaces[Len(namespaces) - 1][<<"e","x">>] = ExNs
  /\ \E k \in 1..Len(triples) :
       /\ triples[k].val[2] = rdf_type
       /\ triples[k].val[3] = Iri(RdfPrefix \o <<"p">>)

\* C31: the blank-node counter is advanced only by a node element without
\* a subject annotation: a node Start carrying rdf:about or rdf:nodeID leaves
\* it unchanged, a node Start without annotation advances it by one, and no
\* other step changes it, so that the generated labels are n0, n1, n2, ...
C31_CounterFrame ==
  [][status' = "running" =>
       IF Reads("Start") /\ ~in_node /\ event'.name # StrRdfRDF
       THEN LET kinds == SubjectKinds(event', namespaces'[Len(namespaces')])
            IN  /\ (kinds \cap {rdf_about, rdf_nodeID} # {}) => bnodes' = bnodes
                /\ kinds = {} => bnodes' = bnodes + 1
       ELSE bnodes' = bnodes]_vars

\* C32: after every event of a well-formed document whose root is rdf:RDF,
\* in_node is true exactly when parents has odd length and false exactly
\* when parents is empty or has even length; Empty and Text events never
\* change in_node.
C32_InNodeParity ==
  /\ []((Running /\ WellFormed) => (in_node <=> Len(parents) % 2 = 1))
  /\ [][((Reads("Empty") \/ Reads("Text")) /\ status' = "running") =>
          in_node' = in_node]_vars

\* C32 witness: an empty predicate element has been read inside a node that
\* is nested in a predicate of another node, under the rdf:RDF root
C32_Witness ==
  /\ After("Empty")
  /\ WellFormed
  /\ Len(open) = 4
  /\ in_node
  /\ Len(parents) = 3
  /\ triples # <<>>

====
